---- MODULE Spec2Model ----
(***************************************************************************)
(* Model of the min-sqlite3-sys binding layer: the Database and            *)
(* SqlStatement wrapper values, the native calls they issue                *)
(* (sqlite3_open, close, exec, prepare_v2, step, finalize, column, bind),  *)
(* and the conversion of native status integers to result codes.           *)
(*                                                                         *)
(* The native library is opaque: each native call returns a status drawn   *)
(* from a sample of 32-bit integers.  A native call made with a handle     *)
(* that was already released is undefined behaviour: it either returns     *)
(* some status or aborts the process.                                      *)
(***************************************************************************)
EXTENDS Integers, Sequences, FiniteSets, TLC

\* ---------------------------------------------------------------- bounds

\* number of SqlStatement values a run may obtain from prepare
MaxStmts == 1
\* number of explicit kill() calls a run may make on one SqlStatement
MaxKill == 2
\* number of live clones one SqlStatement may have at a time
MaxClones == 1
\* number of parameters of the statement values are bound to
NParams == 1
\* number of result columns of the statement values are read from
NColumns == 1
\* number of runs of the builder
MaxRuns == 2
\* From<i32> is exercised on -FromRange..FromRange and on the extremes
FromRange == 60

\* ------------------------------------------------------- program constants

NULL == 0
SQLITE_ROW == 100
SQLITE_DONE == 101
COLUMN_NULL == 5

\* sample of the 32-bit statuses a native call may return: primary codes,
\* the step codes, codes beyond the enumeration, extended codes, negatives
NativeStatuses == {0, 1, 100, 101, 256}

\* statement texts as byte strings; 0 is an interior NUL byte
Statements == {<<83>>, <<83, 0, 81>>}

\* ---------------------------------------------------------- result codes

\* enum SqlitePrimaryResult: the named variants and their discriminants
Discriminant ==
    [Ok |-> 0, Error |-> 1, Internal |-> 2, Perm |-> 3, Abort |-> 4,
     Busy |-> 5, Locked |-> 6, NoMem |-> 7, Readonly |-> 8, Interrupt |-> 9,
     IoErr |-> 10, Corrupt |-> 11, NotFound |-> 12, Full |-> 13,
     CantOpen |-> 14, Protocol |-> 15, Empty |-> 16, Schema |-> 17,
     TooBig |-> 18, Constrait |-> 19, MisMatch |-> 20, Misuse |-> 21,
     NoLfs |-> 22, Auth |-> 23, Format |-> 24, Range |-> 25, NotADB |-> 26,
     Notice |-> 27, Warning |-> 28]

Named(name) == [variant |-> name]
Other(v) == [variant |-> "Other", inner |-> v]

\* the arms of the match in From<i32>, in source order: arm k matches k-1
FromArms ==
    <<"Ok", "Error", "Internal", "Perm", "Abort", "Busy", "Locked", "NoMem",
      "Readonly", "Interrupt", "IoErr", "Corrupt", "NotFound", "Full",
      "CantOpen", "Protocol", "Empty", "Schema", "TooBig", "Constrait",
      "MisMatch", "Misuse", "NoLfs", "Auth", "Format", "Range", "NotADB",
      "Notice", "Warning">>

\* a From<i32> whose last named arm is missing
SqlitePrimaryResult_from_ArmDropped(value) ==
    IF value >= 0 /\ value < Len(FromArms) - 1
    THEN Named(FromArms[value + 1])
    ELSE Other(value)

\* impl From<i32> for SqlitePrimaryResult
SqlitePrimaryResult_from(value) ==
    IF value >= 0 /\ value < Len(FromArms)
    THEN Named(FromArms[value + 1])
    ELSE Other(value)

\* `status as i8`: keep the low 8 bits, read as two's complement
as_i8(status) ==
    LET low == status % 256
    IN  IF low >= 128 THEN low - 256 ELSE low

\* SqlitePrimaryResult::from_i8: the result code of an 8-bit status
from_i8(value) ==
    IF value >= 0 /\ value < Len(FromArms)
    THEN Named(FromArms[value + 1])
    ELSE Other(value)

HasNul(text) == \E k \in 1..Len(text) : text[k] = 0

\* ------------------------------------------------------------------ state

VARIABLES
    db,            \* the Database value: its state and its pointer rp
    closeCalls,    \* native sqlite3_close calls made on rp
    stmts,         \* the SqlStatement values prepare returned: state and
                   \* handle of each, and its live clones (same handle)
    finalizeCalls, \* native sqlite3_finalize calls made through each value
    lastStep,      \* per handle: outcome of the latest sqlite3_step on it
    last,          \* the latest operation: inputs, native status, outputs
    aborted,       \* the process died in a native call on a released handle
    fromIn,        \* argument of the latest SqlitePrimaryResult::from
    fromOut,       \* its result
    col,           \* the latest bind_val or get_data call on a live
                   \* statement: arguments, native calls made, result
    build          \* the builder: its position in main, its environment,
                   \* the files it works on, the steps of the current run

apiVars == <<db, closeCalls, stmts, finalizeCalls, lastStep, last, aborted>>
fromVars == <<fromIn, fromOut>>
sideVars == <<fromVars, col, build>>
vars == <<db, closeCalls, stmts, finalizeCalls, lastStep, last, aborted,
          fromIn, fromOut, col, build>>

StmtIds == 1..MaxStmts
Handles == 0..MaxStmts

NoResult == [variant |-> "none"]

NoArgs == [statement |-> <<>>, supplied |-> FALSE]

\* a usize index of value hi * 2^31 + lo, with lo below 2^31
Usize(hi, lo) == [hi |-> hi, lo |-> lo]

NoCall ==
    [op |-> "none", T |-> "none", i |-> Usize(0, 0), tag |-> 0,
     utf8 |-> TRUE, calls |-> <<>>, out |-> NoResult, err |-> "none"]

\* record of one operation: its arguments, the statuses the native calls
\* returned to it, the value it returned, the callback invocations it made,
\* whether it ended in Err or a panic instead of a value, and what held of
\* the handle when its native statement calls were made
Op(name, args, native, out, cb, err) ==
    [op |-> name, args |-> args, native |-> native, out |-> out, cb |-> cb,
     err |-> err, notes |-> {}]

\* number of sqlite3_finalize calls the handle h has received
RECURSIVE FinalizesUpTo(_, _)
FinalizesUpTo(h, n) ==
    IF n = 0 THEN 0
    ELSE FinalizesUpTo(h, n - 1)
         + (IF stmts[n].state /= "none" /\ stmts[n].h = h
            THEN finalizeCalls[n] ELSE 0)

HandleFinalizes(h) == FinalizesUpTo(h, MaxStmts)

Released(h) == h /= NULL /\ HandleFinalizes(h) > 0

\* a native call on a released handle is undefined behaviour: the process
\* may die in it
MayAbort(undefined) == IF undefined THEN BOOLEAN ELSE {FALSE}

\* a column read is valid on a handle that is not released and whose latest
\* step returned SQLITE_ROW
InRowWindow(h) == h /= NULL /\ ~Released(h) /\ lastStep[h] = "row"

\* what holds of the handle of value s when a native statement call is made
\* on it: "stale" the handle was finalized before, "orphan" sqlite3_close
\* was called on its connection before, "norow" it is outside a row window
HandleNotes(s) ==
    LET h == stmts[s].h
    IN  (IF Released(h) THEN {"stale"} ELSE {})
        \cup (IF h /= NULL /\ closeCalls > 0 THEN {"orphan"} ELSE {})
        \cup (IF ~InRowWindow(h) THEN {"norow"} ELSE {})

\* the record of an operation that made a native statement call on the
\* handle of value s
StmtOp(s, name, native, out) ==
    [Op(name, NoArgs, native, out, <<>>, FALSE) EXCEPT !.notes = HandleNotes(s)]

\* such a call is undefined behaviour on a handle that was finalized before
StmtCallAborts(s) == aborted' \in MayAbort(Released(stmts[s].h))

\* the files of the builder: the object file and the library in the output
\* directory (lib is the run that linked it, 0 when absent), the target
\* directory, the library under it (the run whose library was copied there)
NoFiles ==
    [obj |-> FALSE, lib |-> 0, readonly |-> FALSE, dir |-> FALSE, target |-> 0]

NoBuild ==
    [pc |-> "idle", run |-> 0, docs_rs |-> FALSE, home |-> FALSE,
     fs |-> NoFiles, start |-> NoFiles, log |-> <<>>, failed |-> FALSE]

Init ==
    /\ db = [state |-> "unopened", rp |-> NULL]
    /\ closeCalls = 0
    /\ stmts = [s \in StmtIds |-> [state |-> "none", h |-> NULL, clones |-> 0]]
    /\ finalizeCalls = [s \in StmtIds |-> 0]
    /\ lastStep = [h \in Handles |-> "none"]
    /\ last = Op("none", NoArgs, <<>>, NoResult, <<>>, FALSE)
    /\ aborted = FALSE
    /\ fromIn = 0
    /\ fromOut = NoResult
    /\ col = NoCall
    /\ build = NoBuild


\* ------------------------------------------------------------- connection

\* Database::open: the path is converted with CString::new (Err on an
\* interior NUL), sqlite3_open is called and its status is dropped; the
\* native library leaves a connection handle in rp, also when it fails
open ==
    /\ ~aborted
    /\ db.state = "unopened"
    /\ \E path \in Statements :
         IF HasNul(path)
         THEN /\ last' = Op("open", NoArgs, <<>>, NoResult, <<>>, TRUE)
              /\ UNCHANGED db
         ELSE \E status \in NativeStatuses :
                /\ db' = [state |-> "live", rp |-> 1]
                /\ last' = Op("open", NoArgs, <<status>>, NoResult, <<>>, FALSE)
    /\ UNCHANGED <<closeCalls, stmts, finalizeCalls, lastStep, aborted, sideVars>>

\* a sqlite_close that narrows the status to 8 bits as execute does
sqlite_close_Narrowed(status) == from_i8(as_i8(status))

\* sqlite_close(rp): one native sqlite3_close on rp, converted with From<i32>
sqlite_close(status) == SqlitePrimaryResult_from(status)

\* Database::close(self): sqlite_close(self.rp), then self goes out of
\* scope at the end of close and Drop for Database runs sqlite_close(self.rp)
\* again, on a connection the first call destroyed if it returned SQLITE_OK
close ==
    /\ ~aborted
    /\ db.state = "live"
    /\ \E status \in NativeStatuses :
         /\ last' = Op("close", NoArgs, <<status>>, sqlite_close(status), <<>>,
                       FALSE)
         /\ aborted' \in MayAbort(status = Discriminant.Ok)
    /\ closeCalls' = closeCalls + 2
    /\ db' = [db EXCEPT !.state = "gone"]
    /\ UNCHANGED <<stmts, finalizeCalls, lastStep, sideVars>>

\* Drop for Database, when the value goes out of scope without close()
drop_Database ==
    /\ ~aborted
    /\ db.state = "live"
    /\ closeCalls' = closeCalls + 1
    /\ db' = [db EXCEPT !.state = "gone"]
    /\ last' = Op("drop_Database", NoArgs, <<>>, NoResult, <<>>, FALSE)
    /\ UNCHANGED <<stmts, finalizeCalls, lastStep, aborted, sideVars>>

\* ------------------------------------------------------------- operations

\* an execute whose callback is invoked whatever the status is
execute_callbacks_Always(status, statement, supplied) ==
    IF supplied
    THEN <<[code |-> from_i8(as_i8(status)), statement |-> statement]>>
    ELSE <<>>

\* the callback invocations of execute: one, with the converted narrowed
\* status and the statement, when the 32-bit status is not Ok and a callback
\* was supplied
execute_callbacks(status, statement, supplied) ==
    IF status /= Discriminant.Ok /\ supplied
    THEN <<[code |-> from_i8(as_i8(status)), statement |-> statement]>>
    ELSE <<>>

\* the value execute returns for a native status
execute_result(status, supplied) == from_i8(as_i8(status))

\* Operations::execute for Database
execute ==
    /\ ~aborted
    /\ db.state = "live"
    /\ \E statement \in Statements, supplied \in BOOLEAN :
         LET args == [statement |-> statement, supplied |-> supplied]
         IN  IF HasNul(statement)
             THEN last' = Op("execute", args, <<>>, NoResult, <<>>, TRUE)
             ELSE \E status \in NativeStatuses :
                    last' = Op("execute", args, <<status>>,
                               execute_result(status, supplied),
                               execute_callbacks(status, statement, supplied),
                               FALSE)
    /\ UNCHANGED <<db, closeCalls, stmts, finalizeCalls, lastStep, aborted,
                   sideVars>>

\* the first SqlStatement value not yet handed out
FreshStmt == CHOOSE s \in StmtIds :
                 /\ stmts[s].state = "none"
                 /\ \A t \in StmtIds : t < s => stmts[t].state /= "none"

\* the callback invocations of prepare: as in execute
prepare_callbacks(status, statement, supplied) ==
    IF status /= Discriminant.Ok /\ supplied
    THEN <<[code |-> from_i8(as_i8(status)), statement |-> statement]>>
    ELSE <<>>

\* Operations::prepare for Database: a SqlStatement is returned around
\* whatever handle sqlite3_prepare_v2 left in stmt (NULL on failure and for
\* an empty statement)
prepare ==
    /\ ~aborted
    /\ db.state = "live"
    /\ \E s \in StmtIds : stmts[s].state = "none"
    /\ \E statement \in Statements, supplied \in BOOLEAN :
         LET args == [statement |-> statement, supplied |-> supplied]
         IN  IF HasNul(statement)
             THEN /\ last' = Op("prepare", args, <<>>, NoResult, <<>>, TRUE)
                  /\ UNCHANGED <<stmts, lastStep>>
             ELSE \E status \in NativeStatuses :
                  \E h \in (IF status = Discriminant.Ok
                            THEN {NULL, FreshStmt} ELSE {NULL}) :
                    /\ stmts' = [stmts EXCEPT
                                   ![FreshStmt] = [state |-> "live", h |-> h,
                                                   clones |-> 0]]
                    /\ lastStep' = [lastStep EXCEPT ![h] = "none"]
                    /\ last' = Op("prepare", args, <<status>>, NoResult,
                                  prepare_callbacks(status, statement, supplied),
                                  FALSE)
    /\ UNCHANGED <<db, closeCalls, finalizeCalls, aborted, sideVars>>

\* -------------------------------------------------------------- statement

\* the mapping of execute_prepared with the two step codes exchanged
StepStatus_Swapped(status) ==
    IF status = SQLITE_DONE THEN Named("FoundRow")
    ELSE IF status = SQLITE_ROW THEN Named("Done")
    ELSE Other(status)

\* the match in execute_prepared
StepStatus(status) ==
    IF status = SQLITE_ROW THEN Named("FoundRow")
    ELSE IF status = SQLITE_DONE THEN Named("Done")
    ELSE Other(status)

\* what the native library holds for a handle after a step returned status
RowState(status) ==
    IF status = SQLITE_ROW THEN "row"
    ELSE IF status = SQLITE_DONE THEN "done"
    ELSE "other"

\* SqlStatement::execute_prepared: sqlite3_step(self.0), no check of self.0
execute_prepared(s) ==
    /\ ~aborted
    /\ stmts[s].state = "live"
    /\ \E status \in NativeStatuses :
         /\ last' = StmtOp(s, "execute_prepared", <<status>>, StepStatus(status))
         /\ lastStep' = [lastStep EXCEPT ![stmts[s].h] = RowState(status)]
    /\ StmtCallAborts(s)
    /\ UNCHANGED <<db, closeCalls, stmts, finalizeCalls, sideVars>>

\* SqlStatement::kill(&self): sqlite3_finalize(self.0); self.0 is kept
kill(s) ==
    /\ ~aborted
    /\ stmts[s].state = "live"
    /\ finalizeCalls[s] < MaxKill
    /\ \E status \in NativeStatuses :
         last' = StmtOp(s, "kill", <<status>>, SqlitePrimaryResult_from(status))
    /\ finalizeCalls' = [finalizeCalls EXCEPT ![s] = @ + 1]
    /\ StmtCallAborts(s)
    /\ UNCHANGED <<db, closeCalls, stmts, lastStep, sideVars>>

\* #[derive(Clone)] for SqlStatement: a second value around the same handle
clone(s) ==
    /\ ~aborted
    /\ stmts[s].state = "live"
    /\ stmts[s].clones < MaxClones
    /\ finalizeCalls[s] < MaxKill
    /\ stmts' = [stmts EXCEPT ![s].clones = @ + 1]
    /\ last' = Op("clone", NoArgs, <<>>, NoResult, <<>>, FALSE)
    /\ UNCHANGED <<db, closeCalls, finalizeCalls, lastStep, aborted, sideVars>>

\* a Drop for SqlStatement that releases the value without self.kill()
drop_SqlStatement_NoKill(s) ==
    /\ ~aborted
    /\ stmts[s].state = "live"
    /\ stmts' = IF stmts[s].clones > 0
                THEN [stmts EXCEPT ![s].clones = @ - 1]
                ELSE [stmts EXCEPT ![s].state = "gone"]
    /\ last' = Op("drop_SqlStatement", NoArgs, <<>>, NoResult, <<>>, FALSE)
    /\ UNCHANGED <<db, closeCalls, finalizeCalls, lastStep, aborted, sideVars>>

\* Drop for SqlStatement: self.kill(), whatever was called before; the
\* value dropped is a clone while one is live, else the last holder
drop_SqlStatement(s) ==
    /\ ~aborted
    /\ stmts[s].state = "live"
    /\ stmts' = IF stmts[s].clones > 0
                THEN [stmts EXCEPT ![s].clones = @ - 1]
                ELSE [stmts EXCEPT ![s].state = "gone"]
    /\ finalizeCalls' = [finalizeCalls EXCEPT ![s] = @ + 1]
    /\ last' = StmtOp(s, "drop_SqlStatement", <<>>, NoResult)
    /\ StmtCallAborts(s)
    /\ UNCHANGED <<db, closeCalls, lastStep, sideVars>>

\* the target types of get_data, by the shape of their implementation
PlainTargets == {"i64", "String"}
OptionTargets == {"Option_i64", "Option_String"}
UnimplementedTargets == {"SqliteNull", "slice_u8"}
Targets == PlainTargets \cup OptionTargets \cup UnimplementedTargets

ColumnTags == 1..COLUMN_NULL

\* ColumnCapabilities::get_data for an Option target on a column whose
\* native type tag is tag: sqlite3_column_type is asked first and no value
\* is read for COLUMN_NULL
get_data_Option(tag) ==
    IF tag = COLUMN_NULL THEN [variant |-> "None"] ELSE [variant |-> "Some"]

\* SqlStatement::get_data: ColumnCapabilities::get_data(self.0, i), no check
\* of the state of the statement; the unimplemented targets panic before
\* any native call.  Here the call is followed on the handle; its index,
\* its native calls and its decoding are followed in get_data_call
get_data(s) ==
    /\ ~aborted
    /\ stmts[s].state = "live"
    /\ \E T \in Targets :
         IF T \in UnimplementedTargets
         THEN /\ last' = Op("get_data", NoArgs, <<>>, NoResult, <<>>, TRUE)
              /\ UNCHANGED aborted
         ELSE IF T \in PlainTargets
         THEN /\ last' = StmtOp(s, "get_data", <<>>, [variant |-> "Value"])
              /\ StmtCallAborts(s)
         ELSE /\ \E tag \in ColumnTags :
                   last' = StmtOp(s, "get_data", <<>>, get_data_Option(tag))
              /\ StmtCallAborts(s)
    /\ UNCHANGED <<db, closeCalls, stmts, finalizeCalls, lastStep, sideVars>>

\* the values of bind_val, by the shape of their implementation
BindValues == {"i64", "None_i64", "SqliteNull"}
BindIndexes == {0, 1}

\* SqlStatement::bind_val: Range for index 0; a None is answered MisMatch
\* without a native call; otherwise the narrowed status of the native bind.
\* Here the call is followed on the handle; its index and its native call
\* are followed in bind_val_call
bind_val(s) ==
    /\ ~aborted
    /\ stmts[s].state = "live"
    /\ \E i \in BindIndexes :
         IF i = 0
         THEN /\ last' = Op("bind_val", NoArgs, <<>>, Named("Range"), <<>>,
                            FALSE)
              /\ UNCHANGED aborted
         ELSE \E val \in BindValues :
              IF val = "None_i64"
              THEN /\ last' = Op("bind_val", NoArgs, <<>>, Named("MisMatch"),
                                 <<>>, FALSE)
                   /\ UNCHANGED aborted
              ELSE /\ \E status \in NativeStatuses :
                        last' = StmtOp(s, "bind_val", <<status>>,
                                       from_i8(as_i8(status)))
                   /\ StmtCallAborts(s)
    /\ UNCHANGED <<db, closeCalls, stmts, finalizeCalls, lastStep, sideVars>>

\* ---------------------------------------------------- column capabilities

\* `i as os::raw::c_int`: keep the low 32 bits, read as two's complement
as_c_int(i) == IF i.hi % 2 = 1 THEN i.lo - 2147483647 - 1 ELSE i.lo

\* one native call with the index it was given and the status it returned
\* (0 for the column functions, which return a value instead)
Call(fn, index, status) == [fn |-> fn, index |-> index, status |-> status]

\* the values of bind_val in the column calls: Option<SqliteNull> is bound
\* with sqlite3_bind_null whether it is Some or None
ColumnBindValues == BindValues \cup {"None_SqliteNull"}

\* parameter indexes: 0, 1, one past the last parameter, 2^31, 2^32, 2^32 + 1
ParamIndexes ==
    {Usize(0, 0), Usize(0, 1), Usize(0, NParams + 1), Usize(1, 0),
     Usize(2, 0), Usize(2, 1)}

\* the native bind function an implementation of bind_val calls
BindFunction(val) ==
    IF val \in {"SqliteNull", "None_SqliteNull"}
    THEN "sqlite3_bind_null" ELSE "sqlite3_bind_int64"

\* the statuses sqlite3_bind_* may return for a parameter index: SQLITE_RANGE
\* for an index outside 1..NParams
sqlite3_bind_statuses(index) ==
    IF index \in 1..NParams THEN NativeStatuses ELSE {Discriminant.Range}

\* a bind_val that binds SQL NULL for a None of Option<i64>
ColumnCapabilities_bind_val_NoneAsNull(val, i, status) ==
    [calls |-> <<Call(IF val = "None_i64" THEN "sqlite3_bind_null"
                      ELSE BindFunction(val), as_c_int(i), status)>>,
     out |-> from_i8(as_i8(status))]

\* ColumnCapabilities::bind_val(val, stmt, i): a None of Option<i64> is
\* answered MisMatch without a native call; every other value is bound with
\* the index narrowed to c_int and the status narrowed to i8
ColumnCapabilities_bind_val(val, i, status) ==
    IF val = "None_i64"
    THEN [calls |-> <<>>, out |-> Named("MisMatch")]
    ELSE [calls |-> <<Call(BindFunction(val), as_c_int(i), status)>>,
          out |-> from_i8(as_i8(status))]

\* SqlStatement::bind_val(i, val): Range for i == 0, else the implementation
\* of the value type
SqlStatement_bind_val(i, val, status) ==
    IF i = Usize(0, 0)
    THEN [calls |-> <<>>, out |-> Named("Range")]
    ELSE ColumnCapabilities_bind_val(val, i, status)

\* one bind_val call on a live statement with NParams parameters
bind_val_call ==
    /\ \E val \in ColumnBindValues, i \in ParamIndexes :
       \E status \in sqlite3_bind_statuses(as_c_int(i)) :
         LET r == SqlStatement_bind_val(i, val, status)
         IN  col' = [op |-> "bind_val", T |-> val, i |-> i, tag |-> 0,
                     utf8 |-> TRUE, calls |-> r.calls, out |-> r.out,
                     err |-> "none"]
    /\ UNCHANGED <<apiVars, fromVars, build>>

\* column indexes: 0, one past the last column, 2^32
ColumnIndexes == {Usize(0, 0), Usize(0, NColumns), Usize(2, 0)}

TextTargets == {"String", "Option_String"}

\* the tags of TEXT and BLOB columns: sqlite3_column_text returns their
\* bytes as stored, valid UTF-8 or not; numbers are rendered in ASCII
RawByteTags == {3, 4}

\* the native function an implementation of get_data reads the value with
ReadFunction(T) ==
    IF T \in TextTargets THEN "sqlite3_column_text" ELSE "sqlite3_column_int64"

\* the end of a read: CStr::to_str()? on the bytes of a text target gives
\* Err(Utf8Error) when they are not valid UTF-8
Decoded(T, utf8, calls, variant) ==
    IF T \in TextTargets /\ ~utf8
    THEN [calls |-> calls, out |-> NoResult, err |-> "Utf8Error"]
    ELSE [calls |-> calls, out |-> [variant |-> variant], err |-> "none"]

\* a get_data for Option targets that reads the value whatever the tag is
ColumnCapabilities_get_data_TagIgnored(T, i, tag, utf8) ==
    LET index == as_c_int(i)
        read == Call(ReadFunction(T), index, 0)
        type == Call("sqlite3_column_type", index, 0)
    IN  IF T \in UnimplementedTargets
        THEN [calls |-> <<>>, out |-> NoResult, err |-> "panic"]
        ELSE IF T \in PlainTargets
        THEN Decoded(T, utf8, <<read>>, "Value")
        ELSE Decoded(T, utf8, <<type, read>>, "Some")

\* ColumnCapabilities::get_data(stmt, i) for target T on a column whose
\* native type tag is tag and whose bytes are valid UTF-8 or not: the plain
\* targets read the value at once, the Option targets ask
\* sqlite3_column_type first and read only when it is not COLUMN_NULL, the
\* unimplemented targets panic
ColumnCapabilities_get_data(T, i, tag, utf8) ==
    LET index == as_c_int(i)
        read == Call(ReadFunction(T), index, 0)
        type == Call("sqlite3_column_type", index, 0)
    IN  IF T \in UnimplementedTargets
        THEN [calls |-> <<>>, out |-> NoResult, err |-> "panic"]
        ELSE IF T \in PlainTargets
        THEN Decoded(T, utf8, <<read>>, "Value")
        ELSE IF get_data_Option(tag).variant = "None"
        THEN [calls |-> <<type>>, out |-> get_data_Option(tag), err |-> "none"]
        ELSE Decoded(T, utf8, <<type, read>>, get_data_Option(tag).variant)

\* sqlite3_column_text gives a null pointer for a NULL column; the plain
\* String target hands it to CStr::from_ptr, which is undefined behaviour:
\* the process dies or the read goes on
NullTextRead(T, tag, err) ==
    IF T = "String" /\ tag = COLUMN_NULL THEN {"abort", err} ELSE {err}

\* SqlStatement::get_data(i): ColumnCapabilities::get_data(self.0, i)
SqlStatement_get_data(T, i, tag, utf8) ==
    ColumnCapabilities_get_data(T, i, tag, utf8)

\* one get_data call on a live statement with NColumns columns
get_data_call ==
    /\ \E T \in Targets, i \in ColumnIndexes, tag \in ColumnTags :
       \E utf8 \in (IF tag \in RawByteTags THEN BOOLEAN ELSE {TRUE}) :
         LET r == SqlStatement_get_data(T, i, tag, utf8)
         IN  \E err \in NullTextRead(T, tag, r.err) :
               col' = [op |-> "get_data", T |-> T, i |-> i, tag |-> tag,
                       utf8 |-> utf8, calls |-> r.calls,
                       out |-> IF err = "abort" THEN NoResult ELSE r.out,
                       err |-> err]
    /\ UNCHANGED <<apiVars, fromVars, build>>

\* ---------------------------------------------------------------- builder

\* a target check that never finds the library
TargetExists_Never(fs) == FALSE

\* target_dylib_path.exists()
TargetExists(fs) == fs.target /= 0

\* an order of main that returns before the copy
StepAfter_CopyDropped(step) ==
    CASE step = "compile" -> "link"
      [] step = "link" -> "set_readonly"
      [] step = "set_readonly" -> "create_dir_all"
      [] step = "create_dir_all" -> "exited"
      [] step = "copy" -> "exited"

\* the order of the statements of main after the target check
StepAfter(step) ==
    CASE step = "compile" -> "link"
      [] step = "link" -> "set_readonly"
      [] step = "set_readonly" -> "create_dir_all"
      [] step = "create_dir_all" -> "copy"
      [] step = "copy" -> "exited"

\* Command::output() of cc: the process cannot be started (main panics),
\* or it ran and exited with a status main does not look at
CommandOutcomes == {"spawn_failed", "nonzero", "ok"}

\* a call of std::fs fails (main panics) or succeeds
FsOutcomes == {"failed", "ok"}

\* a run of the build script starts, in some environment
build_start ==
    /\ build.pc \in {"idle", "exited", "panicked"}
    /\ build.run < MaxRuns
    /\ \E docs_rs \in BOOLEAN, home \in BOOLEAN :
         build' = [build EXCEPT !.pc = "docs_rs", !.run = @ + 1,
                                !.docs_rs = docs_rs, !.home = home,
                                !.start = build.fs, !.log = <<>>,
                                !.failed = FALSE]
    /\ UNCHANGED <<apiVars, fromVars, col>>

\* if env::var("DOCS_RS").is_ok() { process::exit(0) }
docs_rs_check ==
    /\ build.pc = "docs_rs"
    /\ build' = [build EXCEPT !.pc = IF build.docs_rs THEN "exited" ELSE "home"]
    /\ UNCHANGED <<apiVars, fromVars, col>>

\* env::var("HOME").unwrap_or_else(panic)
home_lookup ==
    /\ build.pc = "home"
    /\ build' = [build EXCEPT !.pc = IF build.home THEN "exists" ELSE "panicked"]
    /\ UNCHANGED <<apiVars, fromVars, col>>

\* if target_dylib_path.exists() { process::exit(0) }
target_check ==
    /\ build.pc = "exists"
    /\ build' = [build EXCEPT
                   !.pc = IF TargetExists(build.fs) THEN "exited" ELSE "compile"]
    /\ UNCHANGED <<apiVars, fromVars, col>>

\* cc -c c_source/sqlite3.c -o ./min_sqlite3_sys.o
compile ==
    /\ build.pc = "compile"
    /\ \E outcome \in CommandOutcomes :
         build' =
           IF outcome = "spawn_failed"
           THEN [build EXCEPT !.pc = "panicked", !.failed = TRUE]
           ELSE [build EXCEPT !.pc = StepAfter("compile"),
                              !.log = Append(@, "compile"),
                              !.failed = @ \/ outcome /= "ok",
                              !.fs.obj = @ \/ outcome = "ok"]
    /\ UNCHANGED <<apiVars, fromVars, col>>

\* cc -shared ./min_sqlite3_sys.o -o ./libmin_sqlite3_sys.so: it can
\* succeed only when the object file is there; the library it writes is a
\* new, writable file
link ==
    /\ build.pc = "link"
    /\ \E outcome \in (IF build.fs.obj THEN CommandOutcomes
                        ELSE CommandOutcomes \ {"ok"}) :
         build' =
           IF outcome = "spawn_failed"
           THEN [build EXCEPT !.pc = "panicked", !.failed = TRUE]
           ELSE IF outcome = "nonzero"
           THEN [build EXCEPT !.pc = StepAfter("link"),
                              !.log = Append(@, "link"), !.failed = TRUE]
           ELSE [build EXCEPT !.pc = StepAfter("link"),
                              !.log = Append(@, "link"),
                              !.fs.lib = build.run, !.fs.readonly = FALSE]
    /\ UNCHANGED <<apiVars, fromVars, col>>

\* fs::metadata(&dylib_path), set_readonly(true), fs::set_permissions
set_readonly ==
    /\ build.pc = "set_readonly"
    /\ \E outcome \in (IF build.fs.lib /= 0 THEN FsOutcomes ELSE {"failed"}) :
         build' =
           IF outcome = "failed"
           THEN [build EXCEPT !.pc = "panicked", !.failed = TRUE]
           ELSE [build EXCEPT !.pc = StepAfter("set_readonly"),
                              !.log = Append(@, "set_readonly"),
                              !.fs.readonly = TRUE]
    /\ UNCHANGED <<apiVars, fromVars, col>>

\* fs::create_dir_all(&target_dir)
create_dir_all ==
    /\ build.pc = "create_dir_all"
    /\ \E outcome \in FsOutcomes :
         build' =
           IF outcome = "failed"
           THEN [build EXCEPT !.pc = "panicked", !.failed = TRUE]
           ELSE [build EXCEPT !.pc = StepAfter("create_dir_all"),
                              !.log = Append(@, "create_dir_all"),
                              !.fs.dir = TRUE]
    /\ UNCHANGED <<apiVars, fromVars, col>>

\* fs::copy(&dylib_path, &target_dylib_path), the last statement of main
copy ==
    /\ build.pc = "copy"
    /\ \E outcome \in FsOutcomes :
         build' =
           IF outcome = "failed"
           THEN [build EXCEPT !.pc = "panicked", !.failed = TRUE]
           ELSE [build EXCEPT !.pc = StepAfter("copy"),
                              !.log = Append(@, "copy"),
                              !.fs.target = build.fs.lib]
    /\ UNCHANGED <<apiVars, fromVars, col>>

\* ---------------------------------------------------------- specifications

Next ==
    \/ open
    \/ close
    \/ drop_Database
    \/ execute
    \/ prepare
    \/ \E s \in StmtIds : execute_prepared(s)
    \/ \E s \in StmtIds : get_data(s)
    \/ \E s \in StmtIds : bind_val(s)
    \/ \E s \in StmtIds : kill(s)
    \/ \E s \in StmtIds : drop_SqlStatement(s)

Spec == Init /\ [][Next]_vars

\* the same operations together with the derived Clone of SqlStatement
NextClone ==
    \/ Next
    \/ \E s \in StmtIds : clone(s)

SpecClone == Init /\ [][NextClone]_vars

\* the arguments From<i32> is applied to: a range around the enumeration and
\* the ends of i32
FromInputs ==
    (-FromRange..FromRange) \cup {256, 257, 2147483647, -2147483647 - 1}

\* one application of SqlitePrimaryResult::from
from_call ==
    /\ \E value \in FromInputs :
         /\ fromIn' = value
         /\ fromOut' = SqlitePrimaryResult_from(value)
    /\ UNCHANGED <<apiVars, col, build>>

NextFrom == from_call

SpecFrom == Init /\ [][NextFrom]_vars

NextColumn ==
    \/ bind_val_call
    \/ get_data_call

SpecColumn == Init /\ [][NextColumn]_vars

NextBuild ==
    \/ build_start
    \/ docs_rs_check
    \/ home_lookup
    \/ target_check
    \/ compile
    \/ link
    \/ set_readonly
    \/ create_dir_all
    \/ copy

SpecBuild == Init /\ [][NextBuild]_vars

\* ------------------------------------------------------------------ claims

StatementOps == {"execute_prepared", "bind_val", "get_data", "kill"}

\* C1: once the Database value is released (by close() or by drop), the
\* native sqlite3_close has been called on its pointer exactly once.
C1_CloseExactlyOnce == db.state = "gone" => closeCalls = 1

\* C2: once a SqlStatement value is dropped, the native sqlite3_finalize has
\* been called on its handle exactly once, whatever was called on it before.
C2_FinalizeExactlyOnce ==
    \A s \in StmtIds : stmts[s].state = "gone" => finalizeCalls[s] = 1

\* C3: no execute_prepared, bind_val, get_data or kill reaches the native
\* library with a handle that was already released.
C3_NoUseAfterRelease ==
    last.op \in StatementOps => "stale" \notin last.notes

\* C4: no native statement call (finalize included) is made on a statement
\* after sqlite3_close was called on its connection.
C4_StatementWithinConnection ==
    last.op \in StatementOps \cup {"drop_SqlStatement"}
        => "orphan" \notin last.notes

\* C5: every native column read of get_data is made inside a row window:
\* after a step that returned FoundRow and before the next step or kill.
C5_ReadsInsideRowWindow ==
    (last.op = "get_data" /\ ~last.err) => "norow" \notin last.notes

\* C6: From<i32> sends each integer 0..=28 to the named variant whose
\* discriminant is that integer and every other integer v to Other(v).
C6_FromTotalFaithful ==
    /\ {Discriminant[name] : name \in DOMAIN Discriminant} = 0..28
    /\ fromOut /= NoResult =>
         IF fromIn \in 0..28
         THEN /\ fromOut.variant \in DOMAIN Discriminant
              /\ Discriminant[fromOut.variant] = fromIn
              /\ fromOut = Named(fromOut.variant)
         ELSE fromOut = Other(fromIn)

\* C6 witness: the last named code, 28, has been converted to Warning.
C6_Witness == fromIn = 28 /\ fromOut = Named("Warning")

\* C7: execute returns the result code of the 32-bit status of sqlite3_exec,
\* and returns Ok if and only if that status is 0.
C7_ExecuteFaithful ==
    (last.op = "execute" /\ ~last.err) =>
        /\ last.out = SqlitePrimaryResult_from(last.native[1])
        /\ (last.out = Named("Ok") <=> last.native[1] = 0)

\* C8: execute invokes a supplied callback exactly once, with the code it
\* returns and the statement it was given, when the native status is not Ok,
\* never when it is Ok, and returns the same value with or without callback.
C8_ExecuteCallback ==
    (last.op = "execute" /\ ~last.err) =>
        LET status == last.native[1]
        IN  /\ (status = 0 \/ ~last.args.supplied) => last.cb = <<>>
            /\ (status /= 0 /\ last.args.supplied) =>
                 last.cb = <<[code |-> last.out,
                              statement |-> last.args.statement]>>
            /\ last.out = execute_result(status, ~last.args.supplied)

\* C8 witness: a failed execute has invoked its callback.
C8_Witness ==
    /\ last.op = "execute"
    /\ last.native = <<1>>
    /\ last.args.supplied
    /\ Len(last.cb) = 1

\* C9: prepare invokes a supplied callback exactly once, with the result
\* code of the native prepare status and the statement, when that status is
\* not Ok, and never when it is Ok.
C9_PrepareCallback ==
    (last.op = "prepare" /\ ~last.err) =>
        LET status == last.native[1]
        IN  last.cb = IF status /= 0 /\ last.args.supplied
                      THEN <<[code |-> SqlitePrimaryResult_from(status),
                              statement |-> last.args.statement]>>
                      ELSE <<>>

\* C10: execute_prepared answers FoundRow for 100, Done for 101 and Other(v)
\* for every other status v.
C10_StepMapping ==
    last.op = "execute_prepared" =>
        LET status == last.native[1]
        IN  /\ status = 100 => last.out = Named("FoundRow")
            /\ status = 101 => last.out = Named("Done")
            /\ status \notin {100, 101} => last.out = Other(status)

\* C10 witness: a step has returned a status that is neither 100 nor 101.
C10_Witness ==
    /\ last.op = "execute_prepared"
    /\ last.native = <<256>>
    /\ last.out = Other(256)

\* the c_int n a native call was given is the usize index i
IsIndex(n, i) == i.hi = 0 /\ n = i.lo

\* C11: bind_val with index 0 returns Range without a native bind call (so
\* no binding changes), for every value type; with an index i >= 1 a value
\* to bind reaches the native bind with exactly the index i; get_data hands
\* its column index to the native calls unchanged.
C11_IndexConvention ==
    /\ col.op = "bind_val" =>
         IF col.i = Usize(0, 0)
         THEN col.out = Named("Range") /\ col.calls = <<>>
         ELSE /\ col.T /= "None_i64" => Len(col.calls) = 1
              /\ \A k \in 1..Len(col.calls) :
                     IsIndex(col.calls[k].index, col.i)
    /\ col.op = "get_data" =>
         \A k \in 1..Len(col.calls) : IsIndex(col.calls[k].index, col.i)

\* the usize index i is outside the parameters 1..NParams of the statement
ParamOutOfRange(i) == i.hi > 0 \/ i.lo = 0 \/ i.lo > NParams

\* C12: bind_val returns Range whenever the index is out of range (0 or
\* above the number of parameters), for every value type, a None included,
\* and returns Ok when the native bind succeeded.
C12_BindResult ==
    col.op = "bind_val" =>
        /\ ParamOutOfRange(col.i) => col.out = Named("Range")
        /\ (col.calls /= <<>> /\ col.calls[1].status = 0) =>
             col.out = Named("Ok")

\* C13: for every target type that can be read, get_data asks the native
\* column type first, before it reads a value.
C13_DecodeByTag ==
    (col.op = "get_data" /\ col.T \notin UnimplementedTargets) =>
        /\ col.calls /= <<>>
        /\ col.calls[1].fn = "sqlite3_column_type"

\* C14 as stated: for an Option target get_data returns Ok(None) exactly
\* when the tag is NULL, without a value read, and Ok(Some(..)) for every
\* other tag.
C14_OptionSomeForEveryOtherTag ==
    (col.op = "get_data" /\ col.T \in OptionTargets) =>
        /\ col.out = [variant |-> "None"] <=> col.tag = COLUMN_NULL
        /\ col.tag = COLUMN_NULL =>
             \A k \in 1..Len(col.calls) :
                 col.calls[k].fn = "sqlite3_column_type"
        /\ col.tag /= COLUMN_NULL => col.out = [variant |-> "Some"]

\* C14: for an Option target get_data returns Ok(None) exactly when the tag
\* is NULL, and then only sqlite3_column_type was called; for every other
\* tag it reads the value and returns Ok(Some(..)), except that a text
\* target returns Err(Utf8Error) when the bytes read are not valid UTF-8.
C14_OptionByTag ==
    (col.op = "get_data" /\ col.T \in OptionTargets) =>
        /\ col.out = [variant |-> "None"] <=> col.tag = COLUMN_NULL
        /\ col.tag = COLUMN_NULL =>
             /\ col.err = "none"
             /\ Len(col.calls) = 1
             /\ col.calls[1].fn = "sqlite3_column_type"
        /\ col.tag /= COLUMN_NULL =>
             /\ Len(col.calls) = 2
             /\ col.calls[2].fn = ReadFunction(col.T)
             /\ IF col.T \in TextTargets /\ ~col.utf8
                THEN col.err = "Utf8Error" /\ col.out = NoResult
                ELSE col.err = "none" /\ col.out = [variant |-> "Some"]

\* C14 witness: an Option<String> read of a NULL column has returned None
\* after the type call alone.
C14_Witness ==
    /\ col.op = "get_data"
    /\ col.T = "Option_String"
    /\ col.tag = COLUMN_NULL
    /\ col.out = [variant |-> "None"]
    /\ Len(col.calls) = 1

\* the native type tags a target type is a correct request for
TagsOf(T) ==
    IF T \in {"i64", "Option_i64"} THEN {1}
    ELSE IF T \in TextTargets THEN {3}
    ELSE {}

\* the usize index i is outside the columns 0..NColumns-1 of the statement
ColumnOutOfRange(i) == i.hi > 0 \/ i.lo >= NColumns

\* C17: get_data panics, and returns no value, when the requested type is
\* not the type of the column or the column index matches no column.
C17_PanicsOnMismatch ==
    (/\ col.op = "get_data"
     /\ \/ col.tag \notin TagsOf(col.T) \cup
                (IF col.T \in OptionTargets THEN {COLUMN_NULL} ELSE {})
        \/ ColumnOutOfRange(col.i))
        => col.err = "panic" /\ col.out = NoResult

\* C15: Database::open panics, and returns no Database, whenever the native
\* sqlite3_open reports a failure status.
C15_OpenPanicsOnFailure ==
    (last.op = "open" /\ last.native /= <<>> /\ last.native[1] /= 0) =>
        last.err /\ db.state = "unopened"

\* C16: close() returns the result code of the 32-bit status its
\* sqlite3_close call reported: Ok exactly when that status is 0.
C16_CloseResult ==
    last.op = "close" =>
        /\ Len(last.native) = 1
        /\ last.out = Named("Ok") <=> last.native[1] = 0
        /\ last.native[1] \in 0..28 =>
             /\ last.out.variant \in DOMAIN Discriminant
             /\ Discriminant[last.out.variant] = last.native[1]
        /\ last.native[1] \notin 0..28 => last.out = Other(last.native[1])

\* C16 witness: a close whose native call reported 0 has returned Ok, and
\* the Database is gone.
C16_Witness ==
    /\ last.op = "close"
    /\ last.native = <<0>>
    /\ last.out = Named("Ok")
    /\ db.state = "gone"

\* C18: no two live SqlStatement values hold the same native statement
\* handle.
C18_SingleOwner ==
    /\ \A s \in StmtIds :
         (stmts[s].state = "live" /\ stmts[s].h /= NULL) => stmts[s].clones = 0
    /\ \A s, t \in StmtIds :
         (/\ s /= t
          /\ stmts[s].state = "live"
          /\ stmts[t].state = "live"
          /\ stmts[s].h /= NULL) => stmts[s].h /= stmts[t].h

\* C19: a run with DOCS_RS unset, HOME set and no target library, in which
\* every step succeeds, performs compile, link, set-read-only,
\* create-directory and copy in that order and ends with the library it
\* linked under the target directory.
C19_FullBuild ==
    (/\ build.pc = "exited"
     /\ ~build.docs_rs
     /\ build.home
     /\ build.start.target = 0
     /\ ~build.failed) =>
        /\ build.log = <<"compile", "link", "set_readonly",
                         "create_dir_all", "copy">>
        /\ build.fs.dir
        /\ build.fs.target = build.run
        /\ build.fs.readonly

\* C19 witness: a first run has gone through the five steps and installed
\* its library.
C19_Witness ==
    /\ build.pc = "exited"
    /\ build.run = 1
    /\ ~build.failed
    /\ Len(build.log) = 5
    /\ build.fs.target = 1

\* C20: a run that finds DOCS_RS set, or finds the target library, runs no
\* compiler or linker, changes no file and does not panic: it only reaches
\* the successful exit; a second run leaves the library of the first.
C20_NothingToDo ==
    (/\ build.run > 0
     /\ \/ build.docs_rs
        \/ build.home /\ build.start.target /= 0) =>
        /\ build.pc \in {"docs_rs", "home", "exists", "exited"}
        /\ build.log = <<>>
        /\ build.fs = build.start

\* C20 witness: a second run has exited on the library the first installed.
C20_Witness ==
    /\ build.run = 2
    /\ ~build.docs_rs
    /\ build.pc = "exited"
    /\ build.fs.target = 1
    /\ build.log = <<>>

NullValues == {"SqliteNull", "None_SqliteNull"}

====
